---- MODULE Spec2Model ----
(***************************************************************************)
(* A model of nanobot/agent/tools/web.py: the web_search tool (Brave or    *)
(* Tavily) and the web_fetch tool.  One tool object is constructed, then   *)
(* invoked; every outbound HTTP request of an invocation is recorded in    *)
(* `sent`, and the value execute() hands back is recorded in `result`.     *)
(*                                                                         *)
(* Strings that the code only passes around (API keys, queries, titles)    *)
(* are TLA+ strings.  Strings that the code inspects character by          *)
(* character (provider, search depth, URLs, fetched text) are sequences of *)
(* one-character strings.  A string the code builds with an f-string is a  *)
(* sequence of its pieces, in order.                                       *)
(***************************************************************************)
EXTENDS Integers, Sequences, FiniteSets, TLC

VARIABLES
    env,        \* os.environ: BRAVE_API_KEY and TAVILY_API_KEY ("" when unset)
    ctor,       \* the arguments the tool object was constructed with
    tool,       \* the tool object's fields, as __init__ left them
    pc,         \* where the program is
    call,       \* the arguments of the execute() call in progress
    sent,       \* the HTTP requests issued by the call in progress, in order
    n,          \* the local n of _search_brave/_search_tavily, or max_chars of a fetch
    reply,      \* what the awaited request raised or returned
    result      \* what execute() returned (or the exception it raised)

vars == <<env, ctor, tool, pc, call, sent, n, reply, result>>

---------------------------------------------------------------------------
(* Python values *)

\* Python's None
None == [none |-> TRUE]

\* an optional string (or character sequence) argument holding s
S(s) == [str |-> s]

\* an optional integer argument holding i
I(i) == [int |-> i]

\* bool(v) of an optional argument: None, "" and 0 are false
Truthy(v) ==
    /\ v # None
    /\ IF "str" \in DOMAIN v THEN Len(v.str) # 0 ELSE v.int # 0

\* a or b
Or(a, b) == IF Truthy(a) THEN a ELSE b

Min(a, b) == IF a < b THEN a ELSE b

Max(a, b) == IF a > b THEN a ELSE b

\* the characters str.strip() removes that the inputs here use
Whitespace == {" ", "\t", "\n"}

\* c.lower() of one character
LowerChar(c) ==
    CASE c = "A" -> "a" [] c = "B" -> "b" [] c = "C" -> "c" [] c = "D" -> "d"
      [] c = "E" -> "e" [] c = "F" -> "f" [] c = "H" -> "h" [] c = "I" -> "i"
      [] c = "L" -> "l" [] c = "M" -> "m" [] c = "O" -> "o" [] c = "P" -> "p"
      [] c = "R" -> "r" [] c = "S" -> "s" [] c = "T" -> "t" [] c = "V" -> "v"
      [] c = "Y" -> "y"
      [] OTHER -> c

\* s.lower()
Lower(s) == [i \in 1..Len(s) |-> LowerChar(s[i])]

RECURSIVE LStrip(_)
LStrip(s) == IF s # <<>> /\ Head(s) \in Whitespace THEN LStrip(Tail(s)) ELSE s

RECURSIVE RStrip(_)
RStrip(s) ==
    IF s # <<>> /\ s[Len(s)] \in Whitespace THEN RStrip(SubSeq(s, 1, Len(s) - 1)) ELSE s

\* s.strip()
Strip(s) == RStrip(LStrip(s))

\* the characters of s as one string
RECURSIVE Text(_)
Text(s) == IF s = <<>> THEN "" ELSE Head(s) \o Text(Tail(s))

---------------------------------------------------------------------------
(* Shared constants *)

brave == <<"b", "r", "a", "v", "e">>

tavily == <<"t", "a", "v", "i", "l", "y">>

basic == <<"b", "a", "s", "i", "c">>

advanced == <<"a", "d", "v", "a", "n", "c", "e", "d">>

fast == <<"f", "a", "s", "t">>

ultra_fast == <<"u", "l", "t", "r", "a", "-", "f", "a", "s", "t">>

ALLOWED_TAVILY_SEARCH_DEPTHS == {basic, advanced, fast, ultra_fast}

BRAVE_URL == "https://api.search.brave.com/res/v1/web/search"

TAVILY_URL == "https://api.tavily.com/search"

---------------------------------------------------------------------------
(* WebSearchTool.__init__ *)

\* Normalised without strip()
Normalised_unstripped(arg, default) == Lower(Or(arg, S(default)).str)

\* self.provider and self.tavily_search_depth: (arg or default).strip().lower()
Normalised(arg, default) == Lower(Strip(Or(arg, S(default)).str))

\* BraveKey with the legacy api_key preferred to brave_api_key
BraveKey_legacy_first(a, e) == Or(a.api_key, Or(a.brave_api_key, S(e.BRAVE_API_KEY))).str

\* self.brave_api_key
BraveKey(a, e) == Or(a.brave_api_key, Or(a.api_key, S(e.BRAVE_API_KEY))).str

\* TavilyKey falling back to the legacy api_key, as BraveKey does
TavilyKey_with_legacy(a, e) == Or(a.tavily_api_key, Or(a.api_key, S(e.TAVILY_API_KEY))).str

\* self.tavily_api_key
TavilyKey(a, e) == Or(a.tavily_api_key, S(e.TAVILY_API_KEY)).str

WebSearchTool(a, e) ==
    [ class               |-> "WebSearchTool",
      provider            |-> Normalised(a.provider, brave),
      brave_api_key       |-> BraveKey(a, e),
      tavily_api_key      |-> TavilyKey(a, e),
      max_results         |-> a.max_results,
      tavily_search_depth |-> Normalised(a.tavily_search_depth, basic) ]

---------------------------------------------------------------------------
(* WebSearchTool.execute, up to its HTTP request *)

\* execute() returned the string whose pieces are s
Return(s) == [returned |-> s]

\* execute() let the exception e escape
Raise(e) == [raised |-> e]

\* the coroutine is suspended in `await client.get/post(...)` with request r
Await(r, k) == [request |-> r, n |-> k]

\* ResultCount without the upper limit
ResultCount_no_cap(count, max_results) == Max(Or(count, I(max_results)).int, 1)

\* n = min(max(count or self.max_results, 1), 10)
ResultCount(count, max_results) == Min(Max(Or(count, I(max_results)).int, 1), 10)

BraveRequest(t, query, k) ==
    [ method  |-> "GET",
      url     |-> BRAVE_URL,
      params  |-> [q |-> query, count |-> k],
      headers |-> [Accept |-> "application/json", X_Subscription_Token |-> t.brave_api_key] ]

TavilyRequest(t, query, k) ==
    [ method  |-> "POST",
      url     |-> TAVILY_URL,
      json    |-> [query |-> query, max_results |-> k, search_depth |-> t.tavily_search_depth],
      headers |-> [Authorization |-> "Bearer " \o t.tavily_api_key,
                   Content_Type  |-> "application/json"] ]

search_brave(t, query, count) ==
    IF t.brave_api_key = ""
    THEN Return(<<"Error: Brave API key is not configured">>)
    ELSE LET k == ResultCount(count, t.max_results)
         IN  Await(BraveRequest(t, query, k), k)

search_tavily(t, query, count) ==
    IF t.tavily_api_key = ""
    THEN Return(<<"Error: Tavily API key is not configured">>)
    ELSE LET k == ResultCount(count, t.max_results)
         IN  Await(TavilyRequest(t, query, k), k)

UnsupportedProvider(t) ==
    Return(<<"Error: ", "Unsupported search provider", " '", Text(t.provider),
             "'. Use 'brave' or 'tavily'.">>)

UnsupportedDepth(t) ==
    Return(<<"Error: ", "Unsupported Tavily search depth", " '", Text(t.tavily_search_depth),
             "'. ", "Use one of: basic, advanced, fast, ultra-fast.">>)

\* search_execute without the provider check: whatever is not tavily is brave
search_execute_brave_otherwise(t, query, count) ==
    IF t.provider = tavily
    THEN IF t.tavily_search_depth \notin ALLOWED_TAVILY_SEARCH_DEPTHS
         THEN UnsupportedDepth(t)
         ELSE search_tavily(t, query, count)
    ELSE search_brave(t, query, count)

\* search_execute with the depth checked after the Tavily key
search_execute_key_first(t, query, count) ==
    IF t.provider \notin {brave, tavily}
    THEN UnsupportedProvider(t)
    ELSE IF t.provider = tavily
         THEN IF t.tavily_api_key = ""
              THEN search_tavily(t, query, count)
              ELSE IF t.tavily_search_depth \notin ALLOWED_TAVILY_SEARCH_DEPTHS
                   THEN UnsupportedDepth(t)
                   ELSE search_tavily(t, query, count)
         ELSE search_brave(t, query, count)

search_execute(t, query, count) ==
    IF t.provider \notin {brave, tavily}
    THEN UnsupportedProvider(t)
    ELSE IF t.provider = tavily
         THEN IF t.tavily_search_depth \notin ALLOWED_TAVILY_SEARCH_DEPTHS
              THEN UnsupportedDepth(t)
              ELSE search_tavily(t, query, count)
         ELSE search_brave(t, query, count)

---------------------------------------------------------------------------
(* JSON values of a response body, as r.json() yields them *)

JDict(d) == [dict |-> d]

JList(l) == [list |-> l]

JNull == [null |-> TRUE]

\* a body that is not JSON: r.json() raises
Malformed == [malformed |-> TRUE]

IsDict(j) == "dict" \in DOMAIN j

IsList(j) == "list" \in DOMAIN j

\* bool(j)
JTruthy(j) ==
    IF IsDict(j) THEN DOMAIN j.dict # {}
    ELSE IF IsList(j) THEN j.list # <<>>
    ELSE FALSE

\* d.get(key, default) of a dict whose values are JSON values
Get(d, key, default) == IF key \in DOMAIN d.dict THEN d.dict[key] ELSE default

\* item.get(key) of a result item, whose values are strings
ItemGet(item, key) == IF key \in DOMAIN item.dict THEN S(item.dict[key]) ELSE None

\* s[:k]
Slice(s, k) ==
    IF k >= 0 THEN SubSeq(s, 1, Min(k, Len(s))) ELSE SubSeq(s, 1, Max(Len(s) + k, 0))

\* the outcome of evaluating an expression: a value, or an exception
Val(v) == [val |-> v]

Exc(type, msg) == [exc |-> [type |-> type, msg |-> msg]]

HTTPStatusError(status) ==
    [exc |-> [type |-> "HTTPStatusError", msg |-> "Client error for url", status_code |-> status]]

IsExc(o) == "exc" \in DOMAIN o

---------------------------------------------------------------------------
(* WebSearchTool._format_results *)

\* "\n".join(lines)
RECURSIVE Join(_)
Join(lines) ==
    IF lines = <<>> THEN <<>>
    ELSE IF Len(lines) = 1 THEN lines[1]
    ELSE lines[1] \o <<"\n">> \o Join(Tail(lines))

\* the lines appended for the i-th item
ItemLines(i, item, snippet_key) ==
    LET title   == Or(ItemGet(item, "title"), S("(no title)")).str
        url     == Or(ItemGet(item, "url"), S("")).str
        snippet == Or(Or(ItemGet(item, snippet_key), ItemGet(item, "description")), S("")).str
    IN  <<  <<ToString(i), ". ", title, "\n", "   ", url>>  >>
        \o (IF snippet # "" THEN << <<"   ", snippet>> >> ELSE <<>>)

RECURSIVE AllItemLines(_, _, _)
AllItemLines(i, items, snippet_key) ==
    IF i > Len(items) THEN <<>>
    ELSE ItemLines(i, items[i], snippet_key) \o AllItemLines(i + 1, items, snippet_key)

\* format_results listing every result, not the first `count`
format_results_unsliced(query, results, count, snippet_key) ==
    IF ~JTruthy(results) THEN Val(<<"No results for: ", query>>)
    ELSE IF ~IsList(results) THEN Exc("TypeError", "unhashable type: 'slice'")
    ELSE LET items == results.list
         IN  IF \E i \in 1..Len(items) : ~IsDict(items[i])
             THEN Exc("AttributeError", "object has no attribute 'get'")
             ELSE Val(Join(<< <<"Results for: ", query, "\n">> >>
                            \o AllItemLines(1, items, snippet_key)))

format_results(query, results, count, snippet_key) ==
    IF ~JTruthy(results) THEN Val(<<"No results for: ", query>>)
    ELSE IF ~IsList(results) THEN Exc("TypeError", "unhashable type: 'slice'")
    ELSE LET items == Slice(results.list, count)
         IN  IF \E i \in 1..Len(items) : ~IsDict(items[i])
             THEN Exc("AttributeError", "object has no attribute 'get'")
             ELSE Val(Join(<< <<"Results for: ", query, "\n">> >>
                            \o AllItemLines(1, items, snippet_key)))

---------------------------------------------------------------------------
(* WebSearchTool._search_brave and _search_tavily, from the response on *)

\* r.raise_for_status() raises unless the status is 2xx
IsSuccess(status) == status \in 200..299

TimeoutTypes == {"TimeoutException", "ConnectTimeout", "ReadTimeout"}

\* search_except catching httpx's exceptions only: any other one escapes
search_except_httpx_only(e) ==
    IF e.type \in TimeoutTypes
    THEN Return(<<"Error: Search request timed out">>)
    ELSE IF e.type = "HTTPStatusError"
         THEN Return(<<"Error: Search provider returned HTTP ", ToString(e.status_code)>>)
         ELSE IF e.type = "ConnectError"
              THEN Return(<<"Error: Search request failed">>)
              ELSE Raise(e)

\* the except clauses shared by _search_brave and _search_tavily
search_except(e) ==
    IF e.type \in TimeoutTypes
    THEN Return(<<"Error: Search request timed out">>)
    ELSE IF e.type = "HTTPStatusError"
         THEN Return(<<"Error: Search provider returned HTTP ", ToString(e.status_code)>>)
         ELSE Return(<<"Error: Search request failed">>)

\* r.json().get("web", {}).get("results", [])
brave_results(body) ==
    IF body = Malformed THEN Exc("JSONDecodeError", "Expecting value")
    ELSE IF ~IsDict(body) THEN Exc("AttributeError", "object has no attribute 'get'")
    ELSE LET web == Get(body, "web", JDict(<<>>))
         IN  IF ~IsDict(web) THEN Exc("AttributeError", "object has no attribute 'get'")
             ELSE Val(Get(web, "results", JList(<<>>)))

\* r.json().get("results", [])
tavily_results(body) ==
    IF body = Malformed THEN Exc("JSONDecodeError", "Expecting value")
    ELSE IF ~IsDict(body) THEN Exc("AttributeError", "object has no attribute 'get'")
    ELSE Val(Get(body, "results", JList(<<>>)))

\* the try block from the results on: format them, or handle the exception
search_finish(query, k, results, snippet_key) ==
    IF IsExc(results) THEN search_except(results.exc)
    ELSE LET text == format_results(query, results.val, k, snippet_key)
         IN  IF IsExc(text) THEN search_except(text.exc) ELSE Return(text.val)

\* _search_brave once the awaited client.get has the outcome o: an exception
\* of the client, or a response
search_brave_resume(o, query, k) ==
    IF IsExc(o) THEN search_except(o.exc)
    ELSE IF ~IsSuccess(o.response.status_code)
         THEN search_except(HTTPStatusError(o.response.status_code).exc)
         ELSE search_finish(query, k, brave_results(o.response.body), "description")

\* _search_tavily once the awaited client.post has the outcome o
search_tavily_resume(o, query, k) ==
    IF IsExc(o) THEN search_except(o.exc)
    ELSE IF ~IsSuccess(o.response.status_code)
         THEN search_except(HTTPStatusError(o.response.status_code).exc)
         ELSE search_finish(query, k, tavily_results(o.response.body), "content")

---------------------------------------------------------------------------
(* _validate_url *)

USER_AGENT == "Mozilla/5.0 (Macintosh; Intel Mac OS X 14_7_2) AppleWebKit/537.36"

MAX_REDIRECTS == 5

Letters ==
    {"a", "b", "c", "d", "e", "f", "h", "i", "l", "m", "o", "p", "q", "r", "s", "t", "v", "y",
     "A", "B", "C", "D", "E", "F", "H", "I", "L", "M", "O", "P", "R", "S", "T", "V", "Y"}

\* urllib.parse.scheme_chars, of the characters the inputs here use
SchemeChars == Letters \cup {"+", "-", "."}

\* s.find(c) + 1: the first position of c in s, or 0
Find(s, c) == IF \E i \in 1..Len(s) : s[i] = c THEN CHOOSE i \in 1..Len(s) : s[i] = c /\ \A j \in 1..(i - 1) : s[j] # c ELSE 0

\* the first position from `from` on of a character of set in s, or Len(s) + 1
FindAny(s, set, from) ==
    IF \E i \in from..Len(s) : s[i] \in set
    THEN CHOOSE i \in from..Len(s) : s[i] \in set /\ \A j \in from..(i - 1) : s[j] \notin set
    ELSE Len(s) + 1

\* urlparse(url), as far as scheme and netloc: the scheme is what precedes the
\* first ':' when that is a letter followed by scheme characters, lower-cased;
\* the netloc is what follows a leading '//' up to the next '/', '?' or '#';
\* a netloc with one square bracket and not the other raises ValueError
urlparse(url) ==
    LET i       == Find(url, ":")
        scheme  == i > 1 /\ url[1] \in Letters /\ \A j \in 1..(i - 1) : url[j] \in SchemeChars
        rest    == IF scheme THEN SubSeq(url, i + 1, Len(url)) ELSE url
        slashes == Len(rest) >= 2 /\ rest[1] = "/" /\ rest[2] = "/"
        netloc  == IF slashes THEN SubSeq(rest, 3, FindAny(rest, {"/", "?", "#"}, 3) - 1) ELSE <<>>
        open    == \E j \in 1..Len(netloc) : netloc[j] = "["
        close   == \E j \in 1..Len(netloc) : netloc[j] = "]"
    IN  IF open # close THEN Exc("ValueError", "Invalid IPv6 URL")
        ELSE Val([scheme |-> IF scheme THEN Lower(SubSeq(url, 1, i - 1)) ELSE <<>>, netloc |-> netloc])

http == <<"h", "t", "t", "p">>

https == <<"h", "t", "t", "p", "s">>

\* validate_url without its check of the netloc
validate_url_any_host(url) ==
    LET p == urlparse(url)
    IN  IF IsExc(p) THEN <<FALSE, <<p.exc.msg>> >>
        ELSE IF p.val.scheme \notin {http, https}
             THEN <<FALSE, <<"Only http/https allowed, got '",
                             Text(Or(S(p.val.scheme), S(<<"n", "o", "n", "e">>)).str), "'">> >>
             ELSE <<TRUE, <<>> >>

\* (is_valid, error_msg)
validate_url(url) ==
    LET p == urlparse(url)
    IN  IF IsExc(p) THEN <<FALSE, <<p.exc.msg>> >>
        ELSE IF p.val.scheme \notin {http, https}
             THEN <<FALSE, <<"Only http/https allowed, got '",
                             Text(Or(S(p.val.scheme), S(<<"n", "o", "n", "e">>)).str), "'">> >>
             ELSE IF p.val.netloc = <<>> THEN <<FALSE, <<"Missing domain">> >>
                  ELSE <<TRUE, <<>> >>

---------------------------------------------------------------------------
(* WebFetchTool *)

WebFetchTool(a) == [class |-> "WebFetchTool", max_chars |-> a.max_chars]

\* json.dumps({"error": ..., "url": url}): the JSON document execute returns,
\* as the object a JSON parser reads back from it
ErrorEnvelope(error, url) == [error |-> error, url |-> url]

FetchRequest(url) == [method |-> "GET", url |-> url, headers |-> [User_Agent |-> USER_AGENT]]

\* max_chars = maxChars or self.max_chars
max_chars_of(t, maxChars) == Or(maxChars, I(t.max_chars)).int

\* execute up to its HTTP request
fetch_execute(t, url, maxChars) ==
    LET v == validate_url(url)
    IN  IF ~v[1]
        THEN Return(ErrorEnvelope(<<"URL validation failed:", " ">> \o v[2], url))
        ELSE Await(FetchRequest(url), max_chars_of(t, maxChars))

\* needle in ctype, for a header value given as its pieces
Contains(ctype, needle) == \E i \in 1..Len(ctype) : ctype[i] = needle

StartsWith(s, prefix) == Len(s) >= Len(prefix) /\ SubSeq(s, 1, Len(prefix)) = prefix

\* how much of the body is inspected for an HTML prologue
HtmlSniffLen == 256

doctype == <<"<", "!", "d", "o", "c", "t", "y", "p", "e">>

html_tag == <<"<", "h", "t", "m", "l">>

\* r.text[:256].lower().startswith(("<!doctype", "<html"))
LooksLikeHtml(text) ==
    LET head == Lower(Slice(text, HtmlSniffLen))
    IN  StartsWith(head, doctype) \/ StartsWith(head, html_tag)

\* a character sequence for a Python str literal
Hash == <<"#", " ">>

\* extract with the HTML test ahead of the JSON test
extract_html_first(r, extractMode) ==
    IF Contains(r.ctype, "text/html") \/ LooksLikeHtml(r.text)
    THEN IF "exc" \in DOMAIN r.doc THEN r.doc
         ELSE LET content == IF extractMode = "markdown"
                             THEN r.doc.markdown ELSE r.doc.plain
              IN  Val([text |-> IF r.doc.title # <<>>
                                THEN Hash \o r.doc.title \o <<"\n", "\n">> \o content
                                ELSE content,
                       extractor |-> "readability"])
    ELSE IF Contains(r.ctype, "application/json")
         THEN IF r.json = Malformed THEN Exc("JSONDecodeError", "Expecting value")
              ELSE Val([text |-> r.json.dumps, extractor |-> "json"])
         ELSE Val([text |-> r.text, extractor |-> "raw"])

\* the text and the extractor chosen for the response r, or an exception
extract(r, extractMode) ==
    IF Contains(r.ctype, "application/json")
    THEN IF r.json = Malformed THEN Exc("JSONDecodeError", "Expecting value")
         ELSE Val([text |-> r.json.dumps, extractor |-> "json"])
    ELSE IF Contains(r.ctype, "text/html") \/ LooksLikeHtml(r.text)
         THEN IF "exc" \in DOMAIN r.doc THEN r.doc
              ELSE LET content == IF extractMode = "markdown"
                                  THEN r.doc.markdown ELSE r.doc.plain
                   IN  Val([text |-> IF r.doc.title # <<>>
                                     THEN Hash \o r.doc.title \o <<"\n", "\n">> \o content
                                     ELSE content,
                            extractor |-> "readability"])
         ELSE Val([text |-> r.text, extractor |-> "raw"])

\* json.dumps of the success envelope
SuccessEnvelope(url, r, e, max_chars) ==
    LET truncated == Len(e.text) > max_chars
        text      == IF truncated THEN Slice(e.text, max_chars) ELSE e.text
    IN  [ url       |-> url,
          finalUrl  |-> r.url,
          status    |-> r.status_code,
          extractor |-> e.extractor,
          truncated |-> truncated,
          length    |-> Len(text),
          text      |-> text ]

\* except Exception as e: the error envelope carries str(e)
fetch_except(e, url) == Return(ErrorEnvelope(<<e.msg>>, url))

\* fetch_resume without r.raise_for_status()
fetch_resume_status_unchecked(o, url, extractMode, max_chars) ==
    IF IsExc(o) THEN fetch_except(o.exc, url)
    ELSE LET e == extract(o.response, extractMode)
         IN  IF IsExc(e) THEN fetch_except(e.exc, url)
             ELSE Return(SuccessEnvelope(url, o.response, e.val, max_chars))

\* execute once the awaited client.get has the outcome o
fetch_resume(o, url, extractMode, max_chars) ==
    IF IsExc(o) THEN fetch_except(o.exc, url)
    ELSE IF ~IsSuccess(o.response.status_code)
         THEN fetch_except(HTTPStatusError(o.response.status_code).exc, url)
         ELSE LET e == extract(o.response, extractMode)
              IN  IF IsExc(e) THEN fetch_except(e.exc, url)
                  ELSE Return(SuccessEnvelope(url, o.response, e.val, max_chars))

---------------------------------------------------------------------------
(* Bounds and inputs *)

\* the longest result list a provider returns
MaxResults == 2

\* constructor arguments for provider and tavily_search_depth
ProviderArgs ==
    { None, S(<<>>), S(brave), S(<<" ", "B", "r", "a", "v", "e", " ">>),
      S(<<"\t", "T", "A", "V", "I", "L", "Y", "\n">>),
      S(<<"g", "o", "o", "g", "l", "e">>), S(<<" ">>) }

DepthArgs ==
    { None, S(<<" ", "F", "A", "S", "T", " ">>), S(<<"A", "d", "v", "a", "n", "c", "e", "d">>),
      S(ultra_fast), S(<<"d", "e", "e", "p">>) }

MaxResultsArgs == {0, 2, 12}

SearchArgs ==
    [ provider            : ProviderArgs,
      api_key             : {None, S("legacy-key")},
      brave_api_key       : {S(""), S("BSA-key")},
      tavily_api_key      : {None, S("tvly-key")},
      max_results         : MaxResultsArgs,
      tavily_search_depth : DepthArgs ]

Environments == [BRAVE_API_KEY : {"", "env-bsa"}, TAVILY_API_KEY : {"", "env-tvly"}]

Queries == {"nanobot", "tla+ tools"}

Counts == {None, I(0), I(1), I(3), I(11), I(-3)}

\* result items: complete; without title and content; with an empty title
\* and no url or snippet
Items ==
    { JDict([title |-> "T1", url |-> "U1", description |-> "D1", content |-> "C1"]),
      JDict([url |-> "U2", description |-> "D2"]),
      JDict([title |-> "", content |-> ""]) }

RECURSIVE SeqsUpTo(_, _)
SeqsUpTo(set, len) ==
    IF len = 0 THEN {<<>>}
    ELSE LET shorter == SeqsUpTo(set, len - 1)
         IN  shorter \cup {Append(q, x) : q \in shorter, x \in set}

ResultLists == SeqsUpTo(Items, MaxResults)

\* response bodies: well-formed for either provider, and ill-formed ones
Bodies ==
    {JDict([web |-> JDict([results |-> JList(l)])]) : l \in ResultLists}
    \cup {JDict([results |-> JList(l)]) : l \in ResultLists}
    \cup { Malformed, JList(<<>>), JDict(<<>>), JDict([web |-> JNull]),
           JDict([web |-> JDict([results |-> JNull]), results |-> JNull]),
           JDict([web |-> JDict([results |-> JDict([a |-> JNull])]),
                  results |-> JDict([a |-> JNull])]),
           JDict([web |-> JDict([results |-> JList(<<JNull>>)]),
                  results |-> JList(<<JNull, JDict([title |-> "T1"])>>)]) }

Statuses == {200, 301, 404, 500}

\* exceptions the awaited client call raises
ClientErrors ==
    { Exc("ReadTimeout", "timed out"), Exc("ConnectTimeout", "timed out"),
      Exc("ConnectError", "All connection attempts failed") }

\* the outcomes of an awaited search request: an exception, an error status,
\* or a 200 with any of the bodies
Outcomes ==
    ClientErrors
    \cup {[response |-> [status_code |-> st, body |-> Malformed]] : st \in Statuses \ {200}}
    \cup {[response |-> [status_code |-> 200, body |-> b]] : b \in Bodies}

\* the longest text a fetch extracts
MaxTextLen == 3

Urls ==
    { <<"h", "t", "t", "p", ":", "/", "/", "a", ".", "i", "o">>,
      <<"h", "t", "t", "p", "s", ":", "/", "/", "a", ".", "i", "o", "/", "p">>,
      <<"H", "T", "T", "P", ":", "/", "/", "a", ".", "i", "o">>,
      <<"h", "t", "t", "p", "s", ":", "/", "/", "a", ".", "i", "o", "?", "q">>,
      <<"f", "t", "p", ":", "/", "/", "a", ".", "i", "o">>,
      <<"h", "t", "t", "p", ":", "/", "/">>,
      <<"h", "t", "t", "p", ":", "/", "/", "/", "p">>,
      <<"h", "t", "t", "p", ":", "/", "a", ".", "i", "o">>,
      <<"a", ".", "i", "o">>,
      <<>>,
      <<"/", "/", "a", ".", "i", "o">>,
      <<"h", "t", "t", "p", "s", ":", "a", ".", "i", "o">>,
      <<"h", "t", "t", "p", ":", "/", "/", "[", "a">>,
      <<"f", "i", "l", "e", ":", "/", "/", "/", "p">>,
      <<":", "/", "/", "a", ".", "i", "o">>,
      <<"h", "t", "t", "p", ":", "/", "/", "?", "a">> }

ExtractModes == {"markdown", "text"}

MaxCharsArgs == {None, I(0), I(1), I(-1)}

FetchArgs == [max_chars : {0, 2}]

Texts == SeqsUpTo({"a", "b"}, MaxTextLen)

HtmlTexts ==
    { <<"<", "h", "t", "m", "l", ">", "a", "b">>,
      <<"<", "!", "D", "O", "C", "T", "Y", "P", "E", " ", "h", "t", "m", "l", ">">>,
      <<"<", "H", "T", "M", "L", ">", "a">>,
      <<" ", "<", "h", "t", "m", "l", ">">> }

ContentTypes ==
    { <<>>, <<"text/plain">>, <<"application/json">>, <<"text/html", "; charset=utf-8">>,
      <<"text/html", ", ", "application/json">>, <<"Application/JSON">> }

\* what readability and the tag-stripping substitutions make of a page: any
\* title and any content, or an exception
Documents ==
    [title : {<<>>, <<"T">>}, markdown : Texts, plain : {<<"p", "q">>}]
    \cup {Exc("ParserError", "Document is empty")}

NoDocument == [title |-> <<>>, markdown |-> <<>>, plain |-> <<>>]

FinalUrls == {<<"h", "t", "t", "p", "s", ":", "/", "/", "b", ".", "i", "o">>}

Response(st, ct, text, json, doc) ==
    [response |-> [status_code |-> st, url |-> CHOOSE u \in FinalUrls : TRUE,
                   ctype |-> ct, text |-> text, json |-> json, doc |-> doc]]

TooManyRedirects == Exc("TooManyRedirects", "Exceeded maximum allowed redirects.")

\* the outcomes of the awaited client.get: an exception, an error status, or a
\* page of one content type with a JSON body, an HTML body or any other body
FetchOutcomes ==
    ClientErrors
    \cup {Response(st, <<"text/plain">>, <<>>, Malformed, NoDocument) : st \in Statuses \ {200}}
    \cup {Response(200, ct, <<"{", "}">>, [dumps |-> t], NoDocument) :
            ct \in ContentTypes, t \in Texts}
    \cup {Response(200, ct, t, Malformed, d) :
            ct \in {<<>>, <<"text/html", "; charset=utf-8">>}, t \in HtmlTexts, d \in Documents}
    \cup {Response(200, ct, t, Malformed, NoDocument) : ct \in ContentTypes, t \in Texts}
    \cup {Response(200, <<"application/json">>, t, Malformed, NoDocument) : t \in HtmlTexts}

---------------------------------------------------------------------------
(* The program *)

Init ==
    /\ env \in Environments
    /\ ctor = None
    /\ tool = None
    /\ pc = "start"
    /\ call = None
    /\ sent = <<>>
    /\ n = None
    /\ reply = None
    /\ result = None

\* tool = WebSearchTool(**a)
NewWebSearchTool ==
    /\ pc = "start"
    /\ \E a \in SearchArgs :
          /\ ctor' = a
          /\ tool' = WebSearchTool(a, env)
    /\ pc' = "search_ready"
    /\ UNCHANGED <<env, call, sent, n, reply, result>>

\* await tool.execute(query, count), up to its first await or its return
SearchExecute ==
    /\ pc = "search_ready"
    /\ \E query \in Queries, count \in Counts :
          LET o == search_execute(tool, query, count)
          IN  /\ call' = [query |-> query, count |-> count]
              /\ IF "request" \in DOMAIN o
                 THEN /\ sent' = Append(sent, o.request)
                      /\ n' = I(o.n)
                      /\ pc' = IF tool.provider = tavily THEN "await_tavily" ELSE "await_brave"
                      /\ result' = None
                 ELSE /\ result' = o
                      /\ pc' = "search_done"
                      /\ UNCHANGED <<sent, n>>
    /\ UNCHANGED <<env, ctor, tool, reply>>

\* the awaited client.get of _search_brave completes, and execute returns
BraveCompletes ==
    /\ pc = "await_brave"
    /\ \E o \in Outcomes :
          /\ reply' = o
          /\ result' = search_brave_resume(o, call.query, n.int)
    /\ pc' = "search_done"
    /\ UNCHANGED <<env, ctor, tool, call, sent, n>>

\* the awaited client.post of _search_tavily completes, and execute returns
TavilyCompletes ==
    /\ pc = "await_tavily"
    /\ \E o \in Outcomes :
          /\ reply' = o
          /\ result' = search_tavily_resume(o, call.query, n.int)
    /\ pc' = "search_done"
    /\ UNCHANGED <<env, ctor, tool, call, sent, n>>

\* the caller takes the result; the tool object is ready for the next call
SearchReturns ==
    /\ pc = "search_done"
    /\ pc' = "search_ready"
    /\ call' = None
    /\ sent' = <<>>
    /\ n' = None
    /\ reply' = None
    /\ result' = None
    /\ UNCHANGED <<env, ctor, tool>>

\* tool = WebFetchTool(**a)
NewWebFetchTool ==
    /\ pc = "start"
    /\ \E a \in FetchArgs :
          /\ ctor' = a
          /\ tool' = WebFetchTool(a)
    /\ pc' = "fetch_ready"
    /\ UNCHANGED <<env, call, sent, n, reply, result>>

\* await tool.execute(url, extractMode, maxChars), up to its await or its return
FetchExecute ==
    /\ pc = "fetch_ready"
    /\ \E url \in Urls, mode \in ExtractModes, maxChars \in MaxCharsArgs :
          LET o == fetch_execute(tool, url, maxChars)
          IN  /\ call' = [url |-> url, extractMode |-> mode, maxChars |-> maxChars]
              /\ IF "request" \in DOMAIN o
                 THEN /\ sent' = Append(sent, o.request)
                      /\ n' = I(o.n)
                      /\ pc' = "await_fetch"
                      /\ result' = None
                 ELSE /\ result' = o
                      /\ pc' = "fetch_done"
                      /\ UNCHANGED <<sent, n>>
    /\ UNCHANGED <<env, ctor, tool, reply>>

\* the server answers with a redirect, which the client follows unless that
\* exceeds max_redirects
FetchRedirected ==
    /\ pc = "await_fetch"
    /\ \E target \in FinalUrls :
          IF Len(sent) > MAX_REDIRECTS
          THEN /\ reply' = TooManyRedirects
               /\ result' = fetch_except(TooManyRedirects.exc, call.url)
               /\ pc' = "fetch_done"
               /\ UNCHANGED sent
          ELSE /\ sent' = Append(sent, FetchRequest(target))
               /\ UNCHANGED <<pc, reply, result>>
    /\ UNCHANGED <<env, ctor, tool, call, n>>

\* the awaited client.get completes, and execute returns
FetchCompletes ==
    /\ pc = "await_fetch"
    /\ \E o \in FetchOutcomes :
          /\ reply' = o
          /\ result' = fetch_resume(o, call.url, call.extractMode, n.int)
    /\ pc' = "fetch_done"
    /\ UNCHANGED <<env, ctor, tool, call, sent, n>>

\* the caller takes the result; the tool object is ready for the next call
FetchReturns ==
    /\ pc = "fetch_done"
    /\ pc' = "fetch_ready"
    /\ call' = None
    /\ sent' = <<>>
    /\ n' = None
    /\ reply' = None
    /\ result' = None
    /\ UNCHANGED <<env, ctor, tool>>

Next ==
    \/ NewWebSearchTool
    \/ SearchExecute
    \/ BraveCompletes
    \/ TavilyCompletes
    \/ SearchReturns
    \/ NewWebFetchTool
    \/ FetchExecute
    \/ FetchRedirected
    \/ FetchCompletes
    \/ FetchReturns

Spec == Init /\ [][Next]_vars

---------------------------------------------------------------------------
(* Properties *)

\* a search call has got as far as its request or its return
Searching == pc \in {"await_brave", "await_tavily", "search_done"}

\* a fetch call has got as far as its request or its return
Fetching == pc \in {"await_fetch", "fetch_done"}

HasPiece(s, piece) == \E i \in 1..Len(s) : s[i] = piece

\* the envelope is the error envelope of a failed URL validation
IsValidationError(e) ==
    /\ DOMAIN e = {"error", "url"}
    /\ e.error # <<>>
    /\ e.error[1] = "URL validation failed:"

\* C1: web_fetch rejects a URL that urlparse cannot parse, whose scheme is not
\* http or https, or whose netloc is empty, with an error envelope that starts
\* "URL validation failed:" and echoes the url, and sends no request in that
\* call; for every other URL the first request of the call is a GET of that
\* URL, and no validation error is returned.
C1_UrlValidation ==
    Fetching =>
        LET p        == urlparse(call.url)
            rejected == IsExc(p) \/ p.val.scheme \notin {http, https} \/ p.val.netloc = <<>>
        IN  IF rejected
            THEN /\ pc = "fetch_done"
                 /\ sent = <<>>
                 /\ "returned" \in DOMAIN result
                 /\ IsValidationError(result.returned)
                 /\ result.returned.url = call.url
            ELSE /\ sent # <<>>
                 /\ sent[1].method = "GET"
                 /\ sent[1].url = call.url
                 /\ pc = "fetch_done" =>
                        /\ "returned" \in DOMAIN result
                        /\ ~IsValidationError(result.returned)

\* a URL with an http scheme and no host was rejected
C1_Witness ==
    /\ pc = "fetch_done"
    /\ call.url = <<"h", "t", "t", "p", ":", "/", "/", "/", "p">>
    /\ IsValidationError(result.returned)

IsSearchTool == "provider" \in DOMAIN tool

\* the provider arguments that spell brave, none given included, and tavily
C2_SpellsBrave == {None, S(<<>>), S(brave), S(<<" ", "B", "r", "a", "v", "e", " ">>)}

C2_SpellsTavily == {S(<<"\t", "T", "A", "V", "I", "L", "Y", "\n">>)}

\* C2: the tool's provider is the configured one, trimmed and lower-cased, and
\* brave when none is given; a search call issues at most one request, which
\* is a GET of the Brave endpoint when the provider is brave and a POST to the
\* Tavily endpoint when it is tavily, and never a request to the other one.
C2_Dispatch ==
    /\ IsSearchTool =>
          /\ tool.provider = brave <=> ctor.provider \in C2_SpellsBrave
          /\ tool.provider = tavily <=> ctor.provider \in C2_SpellsTavily
    /\ Searching =>
          /\ Len(sent) <= 1
          /\ pc \in {"await_brave", "await_tavily"} => Len(sent) = 1
          /\ \A i \in 1..Len(sent) :
                \/ /\ ctor.provider \in C2_SpellsBrave
                   /\ sent[i].method = "GET"
                   /\ sent[i].url = BRAVE_URL
                \/ /\ ctor.provider \in C2_SpellsTavily
                   /\ sent[i].method = "POST"
                   /\ sent[i].url = TAVILY_URL

\* a tool configured with a padded upper-case TAVILY has returned after its
\* one POST to Tavily
C2_Witness ==
    /\ pc = "search_done"
    /\ ctor.provider = S(<<"\t", "T", "A", "V", "I", "L", "Y", "\n">>)
    /\ Len(sent) = 1
    /\ sent[1].url = TAVILY_URL
    /\ "response" \in DOMAIN reply

\* C3: when the normalised provider is neither brave nor tavily, execute
\* returns an error containing "Unsupported search provider" without issuing
\* a request, whatever keys, depth, query and count are given.
C3_UnsupportedProvider ==
    (Searching /\ tool.provider \notin {brave, tavily}) =>
        /\ pc = "search_done"
        /\ sent = <<>>
        /\ "returned" \in DOMAIN result
        /\ HasPiece(result.returned, "Unsupported search provider")

\* provider google, with keys configured and an invalid depth
C3_Witness ==
    /\ pc = "search_done"
    /\ ctor.provider = S(<<"g", "o", "o", "g", "l", "e">>)
    /\ ctor.api_key = S("legacy-key")
    /\ ctor.tavily_api_key = S("tvly-key")
    /\ ctor.tavily_search_depth = S(<<"d", "e", "e", "p">>)
    /\ HasPiece(result.returned, "Unsupported search provider")

\* the depth each valid depth argument configures
C4_ConfiguredDepth(arg) ==
    CASE arg = None -> basic
      [] arg = S(<<" ", "F", "A", "S", "T", " ">>) -> fast
      [] arg = S(<<"A", "d", "v", "a", "n", "c", "e", "d">>) -> advanced
      [] arg = S(ultra_fast) -> ultra_fast
      [] OTHER -> <<>>

C4_DepthError ==
    /\ "returned" \in DOMAIN result
    /\ HasPiece(result.returned, "Unsupported Tavily search depth")

\* C4: execute returns an error containing "Unsupported Tavily search depth"
\* exactly when the provider is tavily and the normalised depth is not an
\* allowed one, with or without a Tavily key, and then no request is issued;
\* every Tavily request carries the configured depth, normalised, and that is
\* an allowed one.
C4_SearchDepth ==
    Searching =>
        LET bad == /\ tool.provider = tavily
                   /\ tool.tavily_search_depth \notin ALLOWED_TAVILY_SEARCH_DEPTHS
        IN  /\ pc = "search_done" => (C4_DepthError <=> bad)
            /\ bad => pc = "search_done" /\ sent = <<>>
            /\ \A i \in 1..Len(sent) :
                  sent[i].url = TAVILY_URL =>
                      /\ sent[i].json.search_depth = tool.tavily_search_depth
                      /\ sent[i].json.search_depth = C4_ConfiguredDepth(ctor.tavily_search_depth)
                      /\ sent[i].json.search_depth \in {basic, advanced, fast, ultra_fast}

\* provider tavily with a key and the depth "deep"
C4_Witness ==
    /\ pc = "search_done"
    /\ tool.provider = tavily
    /\ tool.tavily_api_key = "tvly-key"
    /\ ctor.tavily_search_depth = S(<<"d", "e", "e", "p">>)
    /\ C4_DepthError

\* no Tavily key is configured: neither the argument nor the environment
C5_NoTavilyKey == ~Truthy(ctor.tavily_api_key) /\ env.TAVILY_API_KEY = ""

\* no Brave key is configured: neither argument nor the environment
C5_NoBraveKey ==
    ~Truthy(ctor.brave_api_key) /\ ~Truthy(ctor.api_key) /\ env.BRAVE_API_KEY = ""

C5_TavilyKeyError == result = Return(<<"Error: Tavily API key is not configured">>)

C5_BraveKeyError == result = Return(<<"Error: Brave API key is not configured">>)

\* C5 as stated: whenever the selected provider's key is empty, execute
\* returns exactly that provider's missing-key error and issues no request.
C5_MissingKey_AsStated ==
    pc = "search_done" =>
        /\ (tool.provider = tavily /\ C5_NoTavilyKey) => (C5_TavilyKeyError /\ sent = <<>>)
        /\ (tool.provider = brave /\ C5_NoBraveKey) => (C5_BraveKeyError /\ sent = <<>>)

\* C5, amended: when the selected provider's key is empty and, for tavily, the
\* search depth is an allowed one, execute returns exactly that provider's
\* missing-key error and issues no request; the Brave keys and the legacy
\* api_key never stand in for a missing Tavily key.
C5_MissingKey ==
    Searching =>
        /\ (/\ tool.provider = tavily
            /\ C5_NoTavilyKey
            /\ tool.tavily_search_depth \in ALLOWED_TAVILY_SEARCH_DEPTHS)
           => (pc = "search_done" /\ C5_TavilyKeyError /\ sent = <<>>)
        /\ (tool.provider = brave /\ C5_NoBraveKey)
           => (pc = "search_done" /\ C5_BraveKeyError /\ sent = <<>>)

\* provider tavily with a valid depth, no Tavily key, and both Brave keys set
C5_Witness ==
    /\ pc = "search_done"
    /\ tool.provider = tavily
    /\ C5_NoTavilyKey
    /\ ctor.api_key = S("legacy-key")
    /\ ctor.brave_api_key = S("BSA-key")
    /\ C5_TavilyKeyError

\* the Brave credential the arguments and the environment configure
C6_BraveCredential ==
    IF Truthy(ctor.brave_api_key) THEN ctor.brave_api_key.str
    ELSE IF Truthy(ctor.api_key) THEN ctor.api_key.str
    ELSE env.BRAVE_API_KEY

\* the Tavily credential the arguments and the environment configure
C6_TavilyCredential ==
    IF Truthy(ctor.tavily_api_key) THEN ctor.tavily_api_key.str ELSE env.TAVILY_API_KEY

C6_BraveKeys == {"BSA-key", "legacy-key", "env-bsa"}

C6_TavilyKeys == {"tvly-key", "env-tvly"}

\* C6: a Brave request's X-Subscription-Token is brave_api_key when that is
\* non-empty, otherwise the legacy api_key, otherwise BRAVE_API_KEY of the
\* environment; a Tavily request's Authorization is "Bearer " and then
\* tavily_api_key, or TAVILY_API_KEY of the environment when that is empty;
\* neither request carries a key of the other provider.
C6_Credentials ==
    Searching =>
        \A i \in 1..Len(sent) :
            IF sent[i].url = BRAVE_URL
            THEN /\ DOMAIN sent[i].headers = {"Accept", "X_Subscription_Token"}
                 /\ sent[i].headers.X_Subscription_Token = C6_BraveCredential
                 /\ sent[i].headers.X_Subscription_Token \notin C6_TavilyKeys
                 /\ sent[i].headers.Accept \notin C6_TavilyKeys
            ELSE /\ DOMAIN sent[i].headers = {"Authorization", "Content_Type"}
                 /\ sent[i].headers.Authorization = "Bearer " \o C6_TavilyCredential
                 /\ sent[i].headers.Authorization \notin {"Bearer " \o k : k \in C6_BraveKeys}
                 /\ sent[i].headers.Content_Type \notin C6_BraveKeys

\* a Brave request carrying the legacy key, brave_api_key being empty and the
\* environment holding another key
C6_Witness ==
    /\ pc = "await_brave"
    /\ ctor.brave_api_key = S("")
    /\ ctor.api_key = S("legacy-key")
    /\ env.BRAVE_API_KEY = "env-bsa"
    /\ ctor.tavily_api_key = S("tvly-key")
    /\ sent[1].headers.X_Subscription_Token = "legacy-key"

\* the result count a request carries
C7_SentCount(r) == IF r.url = BRAVE_URL THEN r.params.count ELSE r.json.max_results

\* C7: the count sent to the provider is an integer in 1..10: the caller's
\* count when that is in 1..10, the configured max_results limited to 1..10
\* when the count is absent or 0, 10 for a count above 10 and 1 for a
\* negative count.
C7_ResultCount ==
    Searching =>
        \A i \in 1..Len(sent) :
            LET k == C7_SentCount(sent[i])
                c == call.count
                m == ctor.max_results
            IN  /\ k \in 1..10
                /\ (c # None /\ c.int \in 1..10) => k = c.int
                /\ (c = None \/ c = I(0)) => k = (IF m < 1 THEN 1 ELSE IF m > 10 THEN 10 ELSE m)
                /\ (c # None /\ c.int > 10) => k = 10
                /\ (c # None /\ c.int < 0) => k = 1

\* a Tavily request for a count of 11, sent as 10
C7_Witness ==
    /\ pc = "await_tavily"
    /\ call.count = I(11)
    /\ sent[1].json.max_results = 10

C8_Keys == C6_BraveKeys \cup C6_TavilyKeys \cup {"Bearer " \o k : k \in C6_TavilyKeys}

C8_ExceptionTexts ==
    { "timed out", "All connection attempts failed", "Client error for url",
      "Expecting value", "object has no attribute 'get'", "unhashable type: 'slice'" }

\* C8: a search call never raises.  For either provider, a timeout of the
\* request returns exactly "Error: Search request timed out", a response
\* with an error status "Error: Search provider returned HTTP <status>", and
\* any other exception, a body that is not JSON included, "Error: Search
\* request failed"; no returned string contains an API key or an exception's
\* text.
C8_ErrorMapping ==
    pc = "search_done" =>
        /\ "returned" \in DOMAIN result
        /\ \A i \in 1..Len(result.returned) :
              result.returned[i] \notin C8_Keys \cup C8_ExceptionTexts
        /\ (IsExc(reply) /\ reply.exc.type \in {"ReadTimeout", "ConnectTimeout"})
              => result.returned = <<"Error: Search request timed out">>
        /\ (IsExc(reply) /\ reply.exc.type = "ConnectError")
              => result.returned = <<"Error: Search request failed">>
        /\ ("response" \in DOMAIN reply /\ reply.response.status_code \notin 200..299)
              => result.returned = <<"Error: Search provider returned HTTP ",
                                     ToString(reply.response.status_code)>>
        /\ ("response" \in DOMAIN reply /\ reply.response.status_code = 200
                /\ reply.response.body \in {Malformed, JList(<<>>)})
              => result.returned = <<"Error: Search request failed">>

\* a Tavily search whose 200 response has a body that is not JSON
C8_Witness ==
    /\ pc = "search_done"
    /\ tool.provider = tavily
    /\ "response" \in DOMAIN reply
    /\ reply.response.status_code = 200
    /\ reply.response.body = Malformed
    /\ result = Return(<<"Error: Search request failed">>)

\* the provider answered 200 with a list of result objects at the place where
\* the selected provider puts it
C9_Listed ==
    /\ pc = "search_done"
    /\ "response" \in DOMAIN reply
    /\ reply.response.status_code = 200
    /\ IsDict(reply.response.body)
    /\ LET b == reply.response.body.dict
       IN  IF tool.provider = brave
           THEN /\ "web" \in DOMAIN b
                /\ IsDict(b.web)
                /\ "results" \in DOMAIN b.web.dict
                /\ IsList(b.web.dict.results)
                /\ \A i \in 1..Len(b.web.dict.results.list) : IsDict(b.web.dict.results.list[i])
           ELSE /\ "results" \in DOMAIN b
                /\ IsList(b.results)
                /\ \A i \in 1..Len(b.results.list) : IsDict(b.results.list[i])

\* that list
C9_List ==
    IF tool.provider = brave
    THEN reply.response.body.dict.web.dict.results.list
    ELSE reply.response.body.dict.results.list

\* the field of item, "" when it is missing
C9_Field(item, key) == IF key \in DOMAIN item.dict THEN item.dict[key] ELSE ""

C9_Title(item) == IF C9_Field(item, "title") = "" THEN "(no title)" ELSE C9_Field(item, "title")

\* description for Brave; content, or else description, for Tavily
C9_Snippet(item) ==
    IF tool.provider = tavily /\ C9_Field(item, "content") # ""
    THEN C9_Field(item, "content")
    ELSE C9_Field(item, "description")

\* the lines of a report: its pieces between line breaks
RECURSIVE C9_Lines(_)
C9_Lines(s) ==
    IF \A i \in 1..Len(s) : s[i] # "\n" THEN <<s>>
    ELSE LET j == CHOOSE i \in 1..Len(s) : s[i] = "\n" /\ \A h \in 1..(i - 1) : s[h] # "\n"
         IN  <<SubSeq(s, 1, j - 1)>> \o C9_Lines(SubSeq(s, j + 1, Len(s)))

\* the lines of entries i..last of the list
RECURSIVE C9_Entries(_, _)
C9_Entries(i, last) ==
    IF i > last THEN <<>>
    ELSE << <<ToString(i), ". ", C9_Title(C9_List[i])>>, <<"   ", C9_Field(C9_List[i], "url")>> >>
         \o (IF C9_Snippet(C9_List[i]) = "" THEN <<>>
             ELSE << <<"   ", C9_Snippet(C9_List[i])>> >>)
         \o C9_Entries(i + 1, last)

\* C9: for an empty result list the report is exactly "No results for:
\* <query>"; otherwise its lines are "Results for: <query>", an empty line,
\* and then, for each of the first min(len(results), n) results in the
\* provider's order and numbered from 1, the number with the title ("(no
\* title)" when there is none), the url, and the snippet when there is one.
C9_Report ==
    C9_Listed =>
        IF C9_List = <<>>
        THEN result = Return(<<"No results for: ", call.query>>)
        ELSE /\ "returned" \in DOMAIN result
             /\ C9_Lines(result.returned) =
                    << <<"Results for: ", call.query>>, <<>> >>
                    \o C9_Entries(1, IF Len(C9_List) < n.int THEN Len(C9_List) ELSE n.int)

\* a Tavily report of one entry out of two results, the first without title
\* and content
C9_Witness ==
    /\ C9_Listed
    /\ tool.provider = tavily
    /\ call.query = "nanobot"
    /\ n = I(1)
    /\ Len(C9_List) = 2
    /\ "title" \notin DOMAIN C9_List[1].dict
    /\ C9_Lines(result.returned) =
          << <<"Results for: ", "nanobot">>, <<>>, <<"1", ". ", "(no title)">>,
             <<"   ", "U2">>, <<"   ", "D2">> >>

\* the text extracted from the response of a successful fetch
C10_Extracted == extract(reply.response, call.extractMode).val.text

\* the character budget of the call
C10_Budget ==
    IF call.maxChars # None /\ call.maxChars.int # 0 THEN call.maxChars.int ELSE ctor.max_chars

C10_Success == pc = "fetch_done" /\ "text" \in DOMAIN result.returned

\* C10: in every success envelope the text has at most max_chars characters,
\* max_chars being maxChars when given and not 0 and else the configured
\* max_chars; truncated is true exactly when the extracted text is longer
\* than max_chars, and then text is its first max_chars characters; otherwise
\* text is the extracted text; length is the length of text.
C10_Truncation ==
    C10_Success =>
        LET e == result.returned
        IN  /\ Len(e.text) <= C10_Budget
            /\ e.truncated <=> Len(C10_Extracted) > C10_Budget
            /\ e.truncated => e.text = [i \in 1..C10_Budget |-> C10_Extracted[i]]
            /\ ~e.truncated => e.text = C10_Extracted
            /\ e.length = Len(e.text)

---------------------------------------------------------------------------

\* the extractor the content type and the body of the response call for
C11_Expected ==
    LET r    == reply.response
        k    == Min(256, Len(r.text))
        head == [i \in 1..k |-> LowerChar(r.text[i])]
    IN  IF \E i \in 1..Len(r.ctype) : r.ctype[i] = "application/json" THEN "json"
        ELSE IF \/ \E i \in 1..Len(r.ctype) : r.ctype[i] = "text/html"
                \/ k >= 9 /\ SubSeq(head, 1, 9) = <<"<", "!", "d", "o", "c", "t", "y", "p", "e">>
                \/ k >= 5 /\ SubSeq(head, 1, 5) = <<"<", "h", "t", "m", "l">>
             THEN "readability"
             ELSE "raw"

\* what the same call returns for the same response under extractMode m
C11_UnderMode(m) == fetch_resume(reply, call.url, m, n.int).returned

\* C11: every successful fetch has one extractor, chosen by content type with
\* JSON first: "json" when the content-type contains application/json, else
\* "readability" when it contains text/html or the lower-cased first 256
\* characters of the body start with "<!doctype" or "<html", else "raw", and
\* then text is the body itself, or a prefix of it when truncated; extractMode
\* changes nothing outside the readability branch.
C11_Extraction ==
    C10_Success =>
        LET e == result.returned
            r == reply.response
        IN  /\ e.extractor = C11_Expected
            /\ e.extractor = "raw" =>
                   IF e.truncated
                   THEN Len(e.text) <= Len(r.text) /\ e.text = SubSeq(r.text, 1, Len(e.text))
                   ELSE e.text = r.text
            /\ \A m \in ExtractModes :
                   /\ DOMAIN C11_UnderMode(m) = DOMAIN e
                   /\ C11_UnderMode(m).extractor = e.extractor
                   /\ e.extractor # "readability" => C11_UnderMode(m) = e

\* a page without content type whose body opens with an upper-case DOCTYPE is
\* read with readability, and extractMode "text" picks the stripped content
C11_Witness ==
    /\ pc = "fetch_done"
    /\ reply # None /\ "response" \in DOMAIN reply
    /\ reply.response.ctype = <<>>
    /\ reply.response.text =
          <<"<", "!", "D", "O", "C", "T", "Y", "P", "E", " ", "h", "t", "m", "l", ">">>
    /\ call.extractMode = "text"
    /\ "extractor" \in DOMAIN result.returned
    /\ result.returned.extractor = "readability"
    /\ result.returned.text = <<"p", "q">>

---------------------------------------------------------------------------

C12_ErrorKeys == {"error", "url"}

C12_SuccessKeys == {"url", "finalUrl", "status", "extractor", "truncated", "length", "text"}

\* the redirects the client has followed for the call in progress
C12_Redirects == Len(sent) - 1

\* the call failed: in validation, in the request, by the status of the
\* response, by more redirects than the limit, or in parsing a JSON response
C12_Failed ==
    \/ sent = <<>>
    \/ reply # None /\ IsExc(reply)
    \/ /\ reply # None /\ "response" \in DOMAIN reply
       /\ \/ reply.response.status_code >= 400
          \/ /\ \E i \in 1..Len(reply.response.ctype) :
                   reply.response.ctype[i] = "application/json"
             /\ reply.response.json = Malformed

\* C12: every call of WebFetchTool.execute returns an envelope and raises
\* nothing: an error envelope with exactly the keys error and url, or a success
\* envelope with exactly the keys url, finalUrl, status, extractor, truncated,
\* length and text; an invalid URL, a timeout or another failure of the
\* request, an HTTP error status, a redirect beyond the 5 the client follows,
\* and an unparsable body of a JSON response all give the error envelope; url
\* in the envelope is the url of the call.
C12_Envelope ==
    /\ Fetching => C12_Redirects <= 5
    /\ pc = "fetch_done" =>
          /\ DOMAIN result = {"returned"}
          /\ DOMAIN result.returned \in {C12_ErrorKeys, C12_SuccessKeys}
          /\ result.returned.url = call.url
          /\ C12_Failed => DOMAIN result.returned = C12_ErrorKeys
          /\ reply = TooManyRedirects => C12_Redirects = 5

\* the sixth redirect of a call ends it with the error envelope
C12_Witness ==
    /\ pc = "fetch_done"
    /\ reply = TooManyRedirects
    /\ C12_Redirects = 5
    /\ call.url = <<"h", "t", "t", "p", ":", "/", "/", "a", ".", "i", "o">>
    /\ result = Return([error |-> <<"Exceeded maximum allowed redirects.">>,
                        url |-> <<"h", "t", "t", "p", ":", "/", "/", "a", ".", "i", "o">>])

====
